---- MODULE Spec2Model ----
(***************************************************************************)
(* Request queries of yaak-models: lookup, cascading delete, duplication   *)
(* with a fractional sort_priority, auth / header resolution along the     *)
(* containment chain, and the recursive folder listing, for HTTP requests  *)
(* (queries/http_requests.rs) and gRPC requests (queries/grpc_requests.rs).*)
(***************************************************************************)
EXTENDS Integers, Sequences, FiniteSets, TLC

(***************************************************************************)
(* Bounds of the model.                                                    *)
(***************************************************************************)
\* sort_priority is an f64 (53 significant bits).  The model keeps binary
\* floating point with round-to-nearest-even, with MantissaBits significant
\* bits, on a grid whose smallest step is 2^-FracBits.
MantissaBits == 7
FracBits == 10
\* Rows a run creates at most: from any store, and duplicating one request in a row.
MaxNewIds == 1
MaxRepeat == 8

(***************************************************************************)
(* f64 arithmetic, scaled down.  A priority is an integer v standing for   *)
(* the real number v * 2^-FracBits; it is representable when its magnitude *)
(* fits in MantissaBits significant bits.                                  *)
(***************************************************************************)
RECURSIVE Pow2(_)
Pow2(n) == IF n <= 0 THEN 1 ELSE 2 * Pow2(n - 1)

Unit == Pow2(FracBits)

Abs(v) == IF v < 0 THEN -v ELSE v

Sign(v) == IF v < 0 THEN -1 ELSE 1

RECURSIVE BitLen(_)
BitLen(a) == IF a <= 0 THEN 0 ELSE 1 + BitLen(a \div 2)

\* The representable number nearest to the real v * 2^-FracBits, ties to even.
RoundF(v) ==
    LET a == Abs(v)
        k == BitLen(a) - MantissaBits
    IN  IF k <= 0 THEN v
        ELSE LET p == Pow2(k)
                 q == a \div p
                 r == a % p
                 h == p \div 2
                 m == IF r > h \/ (r = h /\ q % 2 = 1) THEN q + 1 ELSE q
             IN  Sign(v) * m * p

Representable(v) == RoundF(v) = v

\* a + b on floats: the exact sum, rounded once.
FAdd(a, b) == RoundF(a + b)

\* v / 2.0: exact, except below the grid, where the half-way case goes to even.
FHalf(v) ==
    IF v % 2 = 0 THEN v \div 2
    ELSE LET q == (Abs(v) - 1) \div 2
         IN  Sign(v) * (IF q % 2 = 0 THEN q ELSE q + 1)

\* The literal 1000.0 (exactly representable, as it is in f64).
LargeGap == 1000 * Unit

\* The literal 0.001: the representable number nearest to 1/1000.
Epsilon == RoundF((2 * Unit + 1000) \div 2000)

(***************************************************************************)
(* Option<T> is a sequence of length at most one.                          *)
(***************************************************************************)
None == << >>

Some(x) == << x >>

IsSome(o) == Len(o) = 1

Unwrap(o) == o[1]

Ok(v) == [ok |-> TRUE, val |-> v]

Err(e) == [ok |-> FALSE, val |-> e]

NotFound == "NotFound"

RepositoryFailure == "RepositoryFailure"

(***************************************************************************)
(* The repository.  Tables are sets of rows keyed by id; find_many gives   *)
(* the matching rows in an order the repository does not promise.          *)
(***************************************************************************)
VARIABLES
    workspaces,        \* rows of the workspace table
    folders,           \* rows of the folder table
    http_requests,     \* rows of the HTTP request table
    grpc_requests,     \* rows of the gRPC request table
    http_responses,    \* child rows of HTTP requests: [id, request_id]
    grpc_connections,  \* child rows of gRPC requests: [id, request_id]
    nextId,            \* identities handed out so far
    idLimit,           \* identities the run may hand out: the bound on the rows it creates
    pc,                \* the call in progress: Idle, or a delete between its two repository calls
    last,              \* the last call: [op, kind, arg, res, siblings]
    run                \* the current series of duplications of one request in a row

vars == << workspaces, folders, http_requests, grpc_requests, http_responses,
           grpc_connections, nextId, idLimit, pc, last, run >>

\* Every ordering of a finite set of rows: the orders find_many may return them in.
RECURSIVE Orderings(_)
Orderings(S) ==
    IF S = {} THEN { << >> }
    ELSE UNION { { << x >> \o t : t \in Orderings(S \ {x}) } : x \in S }

\* find_one(Id, id)
FindOne(table, id) ==
    IF \E r \in table : r.id = id
    THEN Ok(CHOOSE r \in table : r.id = id)
    ELSE Err(NotFound)

\* The identity the repository assigns to the next row created with an empty id.
NewIds == [i \in 1..(MaxNewIds + MaxRepeat) |-> << "n1", "n2", "n3", "n4", "n5", "n6", "n7", "n8", "n9", "n10", "n11", "n12" >>[i]]

GeneratedId == NewIds[nextId + 1]

\* upsert: a row with an empty id is created under a generated id; any other row
\* replaces the row of its id, or is created under it.
UpsertRow(table, row) ==
    LET id == IF row.id = "" THEN GeneratedId ELSE row.id
        persisted == [row EXCEPT !.id = id]
    IN  [table |-> { r \in table : r.id # id } \cup { persisted }, row |-> persisted]

\* delete: the row of that id is gone.
DeleteRow(table, row) == { r \in table : r.id # row.id }

GetHttpRequest(id) == FindOne(http_requests, id)

GetGrpcRequest(id) == FindOne(grpc_requests, id)

ListHttpRequests(workspace_id) == { r \in http_requests : r.workspace_id = workspace_id }

ListGrpcRequests(workspace_id) == { r \in grpc_requests : r.workspace_id = workspace_id }

(***************************************************************************)
(* duplicate_http_request / duplicate_grpc_request                         *)
(***************************************************************************)
\* siblings.retain(|r| r.folder_id == request.folder_id)
Retain(listed, folder_id) == SelectSeq(listed, LAMBDA r : r.folder_id = folder_id)

\* One step of the stable sort: x goes after every element that is not greater.
RECURSIVE InsertSorted(_, _)
InsertSorted(sorted, x) ==
    IF sorted = << >> THEN << x >>
    ELSE IF x.sort_priority < sorted[Len(sorted)].sort_priority
         THEN InsertSorted(SubSeq(sorted, 1, Len(sorted) - 1), x) \o << sorted[Len(sorted)] >>
         ELSE Append(sorted, x)

\* siblings.sort_by(|a, b| a.sort_priority.partial_cmp(&b.sort_priority)...): stable.
RECURSIVE SortByPriority(_)
SortByPriority(s) ==
    IF s = << >> THEN << >>
    ELSE InsertSorted(SortByPriority(SubSeq(s, 1, Len(s) - 1)), s[Len(s)])

\* siblings.iter().position(|r| r.id == id), counting from 1.
Position(siblings, id) ==
    IF \E i \in 1..Len(siblings) : siblings[i].id = id
    THEN Some(CHOOSE i \in 1..Len(siblings) :
                 /\ siblings[i].id = id
                 /\ \A j \in 1..(i - 1) : siblings[j].id # id)
    ELSE None

\* NextPriority with the two offsets taken for each other.
NextPriority_OffsetsSwapped(siblings, request) ==
    LET current_index == Position(siblings, request.id)
    IN  IF IsSome(current_index)
        THEN LET idx == Unwrap(current_index)
             IN  IF idx + 1 <= Len(siblings)
                 THEN FHalf(FAdd(request.sort_priority, siblings[idx + 1].sort_priority))
                 ELSE FAdd(request.sort_priority, Epsilon)
        ELSE FAdd(request.sort_priority, LargeGap)

\* NextPriority with a request that is not among the siblings taken as the last.
NextPriority_AbsentAsLast(siblings, request) ==
    LET current_index == Position(siblings, request.id)
    IN  IF IsSome(current_index) /\ Unwrap(current_index) + 1 <= Len(siblings)
        THEN FHalf(FAdd(request.sort_priority, siblings[Unwrap(current_index) + 1].sort_priority))
        ELSE FAdd(request.sort_priority, LargeGap)

\* The priority of the copy (indices count from 1 here, from 0 in the source).
NextPriority(siblings, request) ==
    LET current_index == Position(siblings, request.id)
    IN  IF IsSome(current_index)
        THEN LET idx == Unwrap(current_index)
             IN  IF idx + 1 <= Len(siblings)
                 THEN FHalf(FAdd(request.sort_priority, siblings[idx + 1].sort_priority))
                 ELSE FAdd(request.sort_priority, LargeGap)
        ELSE FAdd(request.sort_priority, Epsilon)

\* Siblings without the retain step: every listed row is taken for a sibling.
Siblings_NotRetained(listed, request) == SortByPriority(listed)

\* The siblings as the duplicator sees them, from the rows as listed.
Siblings(listed, request) == SortByPriority(Retain(listed, request.folder_id))

Reverse(s) == [i \in 1..Len(s) |-> s[Len(s) + 1 - i]]

\* The rows by ascending sort_priority, in every order of the rows of equal priority.
RECURSIVE AscendingOrders(_)
AscendingOrders(rows) ==
    IF rows = {} THEN { << >> }
    ELSE LET least == { x \in rows : \A y \in rows : x.sort_priority <= y.sort_priority }
         IN  UNION { { << x >> \o t : t \in AscendingOrders(rows \ {x}) } : x \in least }

\* The orders find_many lists request rows in.  The repository promises none; the
\* duplicator sorts what it gets with a stable sort, so all that an order can change
\* is how rows of equal priority follow each other.  The listings are every such
\* order, each with the rows ascending and with the rows descending.
Listings(rows) == UNION { { t, Reverse(t) } : t \in AscendingOrders(rows) }

\* The sibling lists the duplicator can see, over the orders the rows may be listed in.
SiblingLists(rows, request) == { Siblings(listed, request) : listed \in Listings(rows) }

\* NewRequest with the clone keeping the id of the source.
NewRequest_IdKept(siblings, request) ==
    [request EXCEPT !.sort_priority = NextPriority(siblings, request)]

\* NewRequest with the clone taken out of its folder.
NewRequest_FolderCleared(siblings, request) ==
    [request EXCEPT !.id = "", !.folder_id = None,
                    !.sort_priority = NextPriority(siblings, request)]

\* new_request: the clone with its id cleared and the computed priority.
NewRequest(siblings, request) ==
    [request EXCEPT !.id = "", !.sort_priority = NextPriority(siblings, request)]

Ids(s) == [i \in 1..Len(s) |-> s[i].id]

(***************************************************************************)
(* The rows the callers work with.                                         *)
(***************************************************************************)
Header(name, value) == [enabled |-> TRUE, name |-> name, value |-> value]

Workspace(id, at, auth, headers) ==
    [id |-> id, authentication_type |-> at, authentication |-> auth, headers |-> headers]

Folder(id, workspace_id, folder_id, at, auth, headers) ==
    [id |-> id, workspace_id |-> workspace_id, folder_id |-> folder_id,
     authentication_type |-> at, authentication |-> auth, headers |-> headers]

HttpRequest(id, workspace_id, folder_id, sort_priority, at, auth, headers) ==
    [id |-> id, workspace_id |-> workspace_id, folder_id |-> folder_id,
     sort_priority |-> sort_priority, authentication_type |-> at,
     authentication |-> auth, headers |-> headers]

GrpcRequest(id, workspace_id, folder_id, sort_priority, at, auth, metadata) ==
    [id |-> id, workspace_id |-> workspace_id, folder_id |-> folder_id,
     sort_priority |-> sort_priority, authentication_type |-> at,
     authentication |-> auth, metadata |-> metadata]

BearerAuth == { << "token", "t" >> }

BasicAuth == { << "username", "u" >>, << "password", "p" >> }

\* The requests callers pass to upsert and to duplicate.  "h2" comes with two
\* priorities: above that of "h1", and equal to it.  The row with the empty id is a
\* request that was never persisted.
HttpCatalogue ==
    { HttpRequest("h1", "w1", None, 1000 * Unit, Some("bearer"), BearerAuth, << Header("C", "c") >>),
      HttpRequest("h2", "w1", None, 2000 * Unit, None, {}, << >>),
      HttpRequest("h2", "w1", None, 1000 * Unit, None, {}, << >>),
      HttpRequest("h3", "w1", Some("f1"), 1536 * Unit, None, {}, << >>),
      HttpRequest("", "w1", None, 1000 * Unit, None, {}, << Header("C", "c") >>) }

GrpcCatalogue ==
    { GrpcRequest("g1", "w1", None, 1000 * Unit, Some("basic"), BasicAuth, << Header("M", "m") >>),
      GrpcRequest("g2", "w2", None, 1200 * Unit, None, {}, << >>) }

\* Requests callers pass to duplicate that differ from what is stored under their id:
\* "h3" as if it were in no folder, "g1" as if it were in folder "f1", each with a
\* small priority of its own.
HttpStrays ==
    { HttpRequest("h3", "w1", None, Unit \div 16, None, {}, << >>) }

GrpcStrays ==
    { GrpcRequest("g1", "w1", Some("f1"), Unit \div 16, None, {}, << >>) }

\* Child rows the response / connection stores create for a persisted request.
HttpResponseCatalogue ==
    { [id |-> "r1", request_id |-> "h1"], [id |-> "r2", request_id |-> "h1"] }

GrpcConnectionCatalogue == { [id |-> "c1", request_id |-> "g1"] }

EnvWorkspaces ==
    { Workspace("w1", Some("none"), {}, << Header("A", "a") >>),
      Workspace("w2", None, {}, << >>) }

EnvFolders ==
    { Folder("f1", "w1", None, Some("basic"), BasicAuth, << Header("B", "b") >>) }

Idle == [op |-> "idle"]

NoRun == [src |-> None, bound |-> None, copies |-> << >>]

Call(op, kind, arg, res, siblings) ==
    [op |-> op, kind |-> kind, arg |-> arg, res |-> res, siblings |-> siblings]

\* Whether the repository can take the row: the bound of the model on new identities.
CanUpsert(row) == row.id # "" \/ nextId < idLimit

IdsHandedOut(row) == IF row.id = "" THEN nextId + 1 ELSE nextId

\* The series of duplications in a row of one request: its source, the priority of
\* the sibling that followed the source when the series began, the copies' priorities.
NextRun(kind, request, siblings, row) ==
    LET key == Some(<< kind, request >>)
        at == Position(siblings, request.id)
    IN  IF run.src = key
        THEN [run EXCEPT !.copies = Append(@, row.sort_priority)]
        ELSE [src |-> key,
              bound |-> IF IsSome(at) /\ Unwrap(at) < Len(siblings)
                        THEN Some(siblings[Unwrap(at) + 1].sort_priority)
                        ELSE None,
              copies |-> << row.sort_priority >>]

(***************************************************************************)
(* The operations.  Calls are serialized: one runs at a time.              *)
(***************************************************************************)
UpsertHttpRequest(http_request) ==
    /\ pc = Idle
    /\ \/ /\ CanUpsert(http_request)
          /\ LET up == UpsertRow(http_requests, http_request)
             IN  /\ http_requests' = up.table
                 /\ last' = Call("upsert", "http", http_request, Ok(up.row), << >>)
          /\ nextId' = IdsHandedOut(http_request)
       \/ /\ last' = Call("upsert", "http", http_request, Err(RepositoryFailure), << >>)
          /\ UNCHANGED << http_requests, nextId >>
    /\ run' = NoRun
    /\ UNCHANGED << idLimit, workspaces, folders, grpc_requests, http_responses, grpc_connections, pc >>

UpsertGrpcRequest(grpc_request) ==
    /\ pc = Idle
    /\ \/ /\ CanUpsert(grpc_request)
          /\ LET up == UpsertRow(grpc_requests, grpc_request)
             IN  /\ grpc_requests' = up.table
                 /\ last' = Call("upsert", "grpc", grpc_request, Ok(up.row), << >>)
          /\ nextId' = IdsHandedOut(grpc_request)
       \/ /\ last' = Call("upsert", "grpc", grpc_request, Err(RepositoryFailure), << >>)
          /\ UNCHANGED << grpc_requests, nextId >>
    /\ run' = NoRun
    /\ UNCHANGED << idLimit, workspaces, folders, http_requests, http_responses, grpc_connections, pc >>

DuplicateHttpRequest(http_request) ==
    /\ pc = Idle
    /\ \/ \* list_http_requests fails
          /\ last' = Call("duplicate", "http", None, Err(RepositoryFailure), << >>)
          /\ UNCHANGED << http_requests, nextId, run >>
       \/ \E siblings \in SiblingLists(ListHttpRequests(http_request.workspace_id), http_request) :
            LET new_request == NewRequest(siblings, http_request)
            IN  \/ /\ CanUpsert(new_request)
                   /\ LET up == UpsertRow(http_requests, new_request)
                      IN  /\ http_requests' = up.table
                          /\ last' = Call("duplicate", "http", http_request, Ok(up.row), Ids(siblings))
                          /\ run' = NextRun("http", http_request, siblings, up.row)
                   /\ nextId' = IdsHandedOut(new_request)
                \/ \* upsert fails
                   /\ last' = Call("duplicate", "http", None, Err(RepositoryFailure), << >>)
                   /\ UNCHANGED << http_requests, nextId, run >>
    /\ UNCHANGED << idLimit, workspaces, folders, grpc_requests, http_responses, grpc_connections, pc >>

DuplicateGrpcRequest(grpc_request) ==
    /\ pc = Idle
    /\ \/ \* list_grpc_requests fails
          /\ last' = Call("duplicate", "grpc", None, Err(RepositoryFailure), << >>)
          /\ UNCHANGED << grpc_requests, nextId, run >>
       \/ \E siblings \in SiblingLists(ListGrpcRequests(grpc_request.workspace_id), grpc_request) :
            LET new_request == NewRequest(siblings, grpc_request)
            IN  \/ /\ CanUpsert(new_request)
                   /\ LET up == UpsertRow(grpc_requests, new_request)
                      IN  /\ grpc_requests' = up.table
                          /\ last' = Call("duplicate", "grpc", grpc_request, Ok(up.row), Ids(siblings))
                          /\ run' = NextRun("grpc", grpc_request, siblings, up.row)
                   /\ nextId' = IdsHandedOut(new_request)
                \/ \* upsert fails
                   /\ last' = Call("duplicate", "grpc", None, Err(RepositoryFailure), << >>)
                   /\ UNCHANGED << grpc_requests, nextId, run >>
    /\ UNCHANGED << idLimit, workspaces, folders, http_requests, http_responses, grpc_connections, pc >>

\* delete_all_http_responses_for_request / delete_all_grpc_connections_for_request
ChildrenOf(children, request_id) == { c \in children : c.request_id = request_id }

\* A delete under way: the children are gone, the request is still to be removed.
Deleting(kind, m, children) == [op |-> "delete", kind |-> kind, m |-> m, children |-> children]

\* What a delete was asked to remove and the child rows it removed.
Deletion(m, children) == [request |-> m, children |-> children]

\* DeleteHttpRequest with the two repository calls in the other order.
DeleteHttpRequest_RequestFirst(m) ==
    \/ /\ pc = Idle
       /\ http_requests' = DeleteRow(http_requests, m)
       /\ pc' = Deleting("http", m, {})
       /\ run' = NoRun
       /\ UNCHANGED << idLimit, workspaces, folders, grpc_requests, http_responses, grpc_connections, nextId, last >>
    \/ /\ pc.op = "delete" /\ pc.kind = "http" /\ pc.m = m
       /\ http_responses' = http_responses \ ChildrenOf(http_responses, m.id)
       /\ last' = Call("delete", "http", Deletion(m, ChildrenOf(http_responses, m.id)), Ok(m), << >>)
       /\ pc' = Idle
       /\ UNCHANGED << idLimit, workspaces, folders, http_requests, grpc_requests, grpc_connections, nextId, run >>

\* DeleteHttpRequest going on to remove the request after the cascade has failed.
DeleteHttpRequest_FailureIgnored(m) ==
    \/ /\ pc = Idle
       /\ \/ /\ http_responses' = http_responses \ ChildrenOf(http_responses, m.id)
             /\ pc' = Deleting("http", m, ChildrenOf(http_responses, m.id))
             /\ UNCHANGED << last, http_requests >>
          \/ /\ \E gone \in SUBSET ChildrenOf(http_responses, m.id) :
                  /\ gone # ChildrenOf(http_responses, m.id) \/ gone = {}
                  /\ http_responses' = http_responses \ gone
                  /\ last' = Call("delete", "http", Deletion(m, gone), Err(RepositoryFailure), << >>)
             /\ http_requests' = DeleteRow(http_requests, m)
             /\ UNCHANGED pc
       /\ run' = NoRun
       /\ UNCHANGED << idLimit, workspaces, folders, grpc_requests, grpc_connections, nextId >>
    \/ /\ pc.op = "delete" /\ pc.kind = "http" /\ pc.m = m
       /\ \/ /\ http_requests' = DeleteRow(http_requests, m)
             /\ last' = Call("delete", "http", Deletion(m, pc.children), Ok(m), << >>)
          \/ /\ last' = Call("delete", "http", Deletion(m, pc.children), Err(RepositoryFailure), << >>)
             /\ UNCHANGED http_requests
       /\ pc' = Idle
       /\ UNCHANGED << idLimit, workspaces, folders, grpc_requests, http_responses, grpc_connections, nextId, run >>

\* delete_http_request: two repository calls, the children first.
DeleteHttpRequest(m) ==
    \/ /\ pc = Idle
       /\ \/ /\ http_responses' = http_responses \ ChildrenOf(http_responses, m.id)
             /\ pc' = Deleting("http", m, ChildrenOf(http_responses, m.id))
             /\ UNCHANGED last
          \/ \* the cascade fails: some of the child rows may be gone already
             /\ \E gone \in SUBSET ChildrenOf(http_responses, m.id) :
                  /\ gone # ChildrenOf(http_responses, m.id) \/ gone = {}
                  /\ http_responses' = http_responses \ gone
                  /\ last' = Call("delete", "http", Deletion(m, gone), Err(RepositoryFailure), << >>)
             /\ UNCHANGED pc
       /\ run' = NoRun
       /\ UNCHANGED << idLimit, workspaces, folders, http_requests, grpc_requests, grpc_connections, nextId >>
    \/ /\ pc.op = "delete" /\ pc.kind = "http" /\ pc.m = m
       /\ \/ /\ http_requests' = DeleteRow(http_requests, m)
             /\ last' = Call("delete", "http", Deletion(m, pc.children), Ok(m), << >>)
          \/ /\ last' = Call("delete", "http", Deletion(m, pc.children), Err(RepositoryFailure), << >>)
             /\ UNCHANGED http_requests
       /\ pc' = Idle
       /\ UNCHANGED << idLimit, workspaces, folders, grpc_requests, http_responses, grpc_connections, nextId, run >>

\* delete_grpc_request: two repository calls, the children first.
DeleteGrpcRequest(m) ==
    \/ /\ pc = Idle
       /\ \/ /\ grpc_connections' = grpc_connections \ ChildrenOf(grpc_connections, m.id)
             /\ pc' = Deleting("grpc", m, ChildrenOf(grpc_connections, m.id))
             /\ UNCHANGED last
          \/ \* the cascade fails: some of the child rows may be gone already
             /\ \E gone \in SUBSET ChildrenOf(grpc_connections, m.id) :
                  /\ gone # ChildrenOf(grpc_connections, m.id) \/ gone = {}
                  /\ grpc_connections' = grpc_connections \ gone
                  /\ last' = Call("delete", "grpc", Deletion(m, gone), Err(RepositoryFailure), << >>)
             /\ UNCHANGED pc
       /\ run' = NoRun
       /\ UNCHANGED << idLimit, workspaces, folders, grpc_requests, http_requests, http_responses, nextId >>
    \/ /\ pc.op = "delete" /\ pc.kind = "grpc" /\ pc.m = m
       /\ \/ /\ grpc_requests' = DeleteRow(grpc_requests, m)
             /\ last' = Call("delete", "grpc", Deletion(m, pc.children), Ok(m), << >>)
          \/ /\ last' = Call("delete", "grpc", Deletion(m, pc.children), Err(RepositoryFailure), << >>)
             /\ UNCHANGED grpc_requests
       /\ pc' = Idle
       /\ UNCHANGED << idLimit, workspaces, folders, http_requests, http_responses, grpc_connections, nextId, run >>

\* DeleteHttpRequestById with the error of the lookup replaced by another.
DeleteHttpRequestById_ErrorReplaced(id) ==
    LET http_request == GetHttpRequest(id)
    IN  IF http_request.ok
        THEN DeleteHttpRequest(http_request.val)
        ELSE /\ pc = Idle
             /\ last' = Call("delete_by_id", "http", id, Err(RepositoryFailure), << >>)
             /\ run' = NoRun
             /\ UNCHANGED << idLimit, workspaces, folders, http_requests, grpc_requests,
                             http_responses, grpc_connections, nextId, pc >>

\* delete_http_request_by_id: the lookup, its error passed on, then delete_http_request
\* on the row found.
DeleteHttpRequestById(id) ==
    LET http_request == GetHttpRequest(id)
    IN  IF http_request.ok
        THEN DeleteHttpRequest(http_request.val)
        ELSE /\ pc = Idle
             /\ last' = Call("delete_by_id", "http", id, http_request, << >>)
             /\ run' = NoRun
             /\ UNCHANGED << idLimit, workspaces, folders, http_requests, grpc_requests,
                             http_responses, grpc_connections, nextId, pc >>

\* delete_grpc_request_by_id
DeleteGrpcRequestById(id) ==
    LET grpc_request == GetGrpcRequest(id)
    IN  IF grpc_request.ok
        THEN DeleteGrpcRequest(grpc_request.val)
        ELSE /\ pc = Idle
             /\ last' = Call("delete_by_id", "grpc", id, grpc_request, << >>)
             /\ run' = NoRun
             /\ UNCHANGED << idLimit, workspaces, folders, http_requests, grpc_requests,
                             http_responses, grpc_connections, nextId, pc >>

\* The response store records a response of a persisted HTTP request.
CreateHttpResponse(c) ==
    /\ pc = Idle
    /\ c \notin http_responses
    /\ \E r \in http_requests : r.id = c.request_id
    /\ http_responses' = http_responses \cup {c}
    /\ last' = Call("create_response", "http", c, Ok(c), << >>)
    /\ run' = NoRun
    /\ UNCHANGED << idLimit, workspaces, folders, http_requests, grpc_requests, grpc_connections, nextId, pc >>

\* The connection store records a connection of a persisted gRPC request.
CreateGrpcConnection(c) ==
    /\ pc = Idle
    /\ c \notin grpc_connections
    /\ \E r \in grpc_requests : r.id = c.request_id
    /\ grpc_connections' = grpc_connections \cup {c}
    /\ last' = Call("create_connection", "grpc", c, Ok(c), << >>)
    /\ run' = NoRun
    /\ UNCHANGED << idLimit, workspaces, folders, http_requests, grpc_requests, http_responses, nextId, pc >>

(***************************************************************************)
(* Duplication, from any store the callers can have built.                 *)
(***************************************************************************)
\* The tables made of persisted rows of a catalogue, one row per id.
Tables(catalogue) ==
    { t \in SUBSET { c \in catalogue : c.id # "" } :
        \A a, b \in t : a.id = b.id => a = b }

Init ==
    /\ workspaces = EnvWorkspaces
    /\ folders = EnvFolders
    /\ http_requests \in Tables(HttpCatalogue)
    /\ grpc_requests \in Tables(GrpcCatalogue)
    /\ http_responses = {}
    /\ grpc_connections = {}
    /\ nextId = 0
    /\ idLimit = MaxNewIds
    /\ pc = Idle
    /\ last = Call("init", "", None, Ok(None), << >>)
    /\ run = NoRun

Next ==
    \/ \E r \in http_requests \cup HttpCatalogue \cup HttpStrays : DuplicateHttpRequest(r)
    \/ \E r \in grpc_requests \cup GrpcCatalogue \cup GrpcStrays : DuplicateGrpcRequest(r)

Spec == Init /\ [][Next]_vars

(***************************************************************************)
(* One request duplicated again and again, nothing else in between, from a *)
(* store whose siblings all differ in sort_priority.                       *)
(***************************************************************************)
SameGroup(a, b) == a.workspace_id = b.workspace_id /\ a.folder_id = b.folder_id

DistinctPriorities(table) ==
    \A a, b \in table : (a # b /\ SameGroup(a, b)) => a.sort_priority # b.sort_priority

InitRepeat ==
    /\ workspaces = EnvWorkspaces
    /\ folders = EnvFolders
    /\ http_requests \in Tables(HttpCatalogue)
    /\ grpc_requests \in Tables(GrpcCatalogue)
    /\ DistinctPriorities(http_requests)
    /\ DistinctPriorities(grpc_requests)
    /\ http_responses = {}
    /\ grpc_connections = {}
    /\ nextId = 0
    /\ idLimit = MaxRepeat
    /\ pc = Idle
    /\ last = Call("init", "", None, Ok(None), << >>)
    /\ run = NoRun

NextRepeat ==
    \/ \E r \in http_requests :
         /\ run = NoRun \/ run.src = Some(<< "http", r >>)
         /\ DuplicateHttpRequest(r)
    \/ \E r \in grpc_requests :
         /\ run = NoRun \/ run.src = Some(<< "grpc", r >>)
         /\ DuplicateGrpcRequest(r)

SpecRepeat == InitRepeat /\ [][NextRepeat]_vars

(***************************************************************************)
(* Resolution along the containment chain: request, folder, ..., workspace. *)
(***************************************************************************)
GetFolder(id) == FindOne(folders, id)

GetWorkspace(id) == FindOne(workspaces, id)

\* resolve_auth_for_workspace: the base case, the workspace's own settings.
ResolveAuthForWorkspace(workspace) ==
    << workspace.authentication_type, workspace.authentication, workspace.id >>

\* resolve_auth_for_folder: the folder's own settings when it sets a type, otherwise
\* those of its parent folder, otherwise those of its workspace.
RECURSIVE ResolveAuthForFolder(_)
ResolveAuthForFolder(folder) ==
    IF IsSome(folder.authentication_type)
    THEN Ok(<< folder.authentication_type, folder.authentication, folder.id >>)
    ELSE IF IsSome(folder.folder_id)
         THEN LET parent == GetFolder(Unwrap(folder.folder_id))
              IN  IF parent.ok THEN ResolveAuthForFolder(parent.val) ELSE parent
         ELSE LET workspace == GetWorkspace(folder.workspace_id)
              IN  IF workspace.ok THEN Ok(ResolveAuthForWorkspace(workspace.val)) ELSE workspace

\* resolve_headers_for_workspace: the workspace's base headers.
ResolveHeadersForWorkspace(workspace) == workspace.headers

\* resolve_headers_for_folder: the ancestors' headers first, the folder's own appended.
RECURSIVE ResolveHeadersForFolder(_)
ResolveHeadersForFolder(folder) ==
    LET inherited ==
            IF IsSome(folder.folder_id)
            THEN LET parent == GetFolder(Unwrap(folder.folder_id))
                 IN  IF parent.ok THEN ResolveHeadersForFolder(parent.val) ELSE parent
            ELSE LET workspace == GetWorkspace(folder.workspace_id)
                 IN  IF workspace.ok THEN Ok(ResolveHeadersForWorkspace(workspace.val)) ELSE workspace
    IN  IF inherited.ok THEN Ok(inherited.val \o folder.headers) ELSE inherited

\* ResolveAuth with the request's own type looked at last.
ResolveAuth_OwnTypeLast(request) ==
    IF IsSome(request.folder_id)
    THEN LET folder == GetFolder(Unwrap(request.folder_id))
         IN  IF folder.ok THEN ResolveAuthForFolder(folder.val) ELSE folder
    ELSE IF IsSome(request.authentication_type)
         THEN Ok(<< request.authentication_type, request.authentication, request.id >>)
         ELSE LET workspace == GetWorkspace(request.workspace_id)
              IN  IF workspace.ok THEN Ok(ResolveAuthForWorkspace(workspace.val)) ELSE workspace

\* ResolveAuth with the folder chain passed over.
ResolveAuth_FolderSkipped(request) ==
    IF IsSome(request.authentication_type)
    THEN Ok(<< request.authentication_type, request.authentication, request.id >>)
    ELSE LET workspace == GetWorkspace(request.workspace_id)
         IN  IF workspace.ok THEN Ok(ResolveAuthForWorkspace(workspace.val)) ELSE workspace

\* The body shared by resolve_auth_for_http_request and resolve_auth_for_grpc_request.
ResolveAuth(request) ==
    IF IsSome(request.authentication_type)
    THEN Ok(<< request.authentication_type, request.authentication, request.id >>)
    ELSE IF IsSome(request.folder_id)
         THEN LET folder == GetFolder(Unwrap(request.folder_id))
              IN  IF folder.ok THEN ResolveAuthForFolder(folder.val) ELSE folder
         ELSE LET workspace == GetWorkspace(request.workspace_id)
              IN  IF workspace.ok THEN Ok(ResolveAuthForWorkspace(workspace.val)) ELSE workspace

ResolveAuthForHttpRequest(http_request) == ResolveAuth(http_request)

ResolveAuthForGrpcRequest(grpc_request) == ResolveAuth(grpc_request)

\* The headers of the ancestors of a request: of its folder, or else of its workspace.
InheritedHeaders(request) ==
    IF IsSome(request.folder_id)
    THEN LET parent_folder == GetFolder(Unwrap(request.folder_id))
         IN  IF parent_folder.ok THEN ResolveHeadersForFolder(parent_folder.val) ELSE parent_folder
    ELSE LET workspace == GetWorkspace(request.workspace_id)
         IN  IF workspace.ok THEN Ok(ResolveHeadersForWorkspace(workspace.val)) ELSE workspace

\* ResolveHeadersForHttpRequest with the request's own entries put first.
ResolveHeadersForHttpRequest_OwnFirst(http_request) ==
    LET headers == InheritedHeaders(http_request)
    IN  IF headers.ok THEN Ok(http_request.headers \o headers.val) ELSE headers

ResolveHeadersForHttpRequest(http_request) ==
    LET headers == InheritedHeaders(http_request)
    IN  IF headers.ok THEN Ok(headers.val \o http_request.headers) ELSE headers

ResolveMetadataForGrpcRequest(grpc_request) ==
    LET metadata == InheritedHeaders(grpc_request)
    IN  IF metadata.ok THEN Ok(metadata.val \o grpc_request.metadata) ELSE metadata

(***************************************************************************)
(* list_http_requests_for_folder_recursive                                 *)
(***************************************************************************)
\* find_many::<Folder>(FolderIden::FolderId, folder_id, None)
FoldersIn(folder_id) == { f \in folders : f.folder_id = Some(folder_id) }

\* find_many::<HttpRequest>(FolderIden::FolderId, folder_id, None)
HttpRequestsIn(folder_id) == { r \in http_requests : r.folder_id = Some(folder_id) }

\* The results the call can return for a folder, over the orders find_many may list
\* the child folders and the requests in: for each child folder in turn all of its
\* own result, then the folder's direct requests.
\* RecursiveListings with the child folders left out.
RecursiveListings_DirectOnly(folder_id) == Orderings(HttpRequestsIn(folder_id))

RECURSIVE RecursiveListings(_)
RECURSIVE ExtendAll(_)
ExtendAll(child_folders) ==
    IF child_folders = << >> THEN { << >> }
    ELSE { a \o b : a \in RecursiveListings(Head(child_folders).id),
                    b \in ExtendAll(Tail(child_folders)) }

\* RecursiveListings with the folder's own requests put before those of its folders.
RecursiveListings_DirectFirst(folder_id) ==
    UNION { { direct \o children : children \in ExtendAll(child_folders),
                                   direct \in Orderings(HttpRequestsIn(folder_id)) } :
            child_folders \in Orderings(FoldersIn(folder_id)) }

RecursiveListings(folder_id) ==
    UNION { { children \o direct : children \in ExtendAll(child_folders),
                                   direct \in Orderings(HttpRequestsIn(folder_id)) } :
            child_folders \in Orderings(FoldersIn(folder_id)) }

(***************************************************************************)
(* The resolvers and the recursive listing, applied to what callers pass,  *)
(* over folder trees of every shape.                                       *)
(***************************************************************************)
ResolveAuthForHttpRequestCall(http_request) ==
    /\ pc = Idle
    /\ last' = Call("resolve_auth", "http", http_request, ResolveAuthForHttpRequest(http_request), << >>)
    /\ UNCHANGED << workspaces, folders, http_requests, grpc_requests, http_responses,
                    grpc_connections, nextId, idLimit, pc, run >>

ResolveAuthForGrpcRequestCall(grpc_request) ==
    /\ pc = Idle
    /\ last' = Call("resolve_auth", "grpc", grpc_request, ResolveAuthForGrpcRequest(grpc_request), << >>)
    /\ UNCHANGED << workspaces, folders, http_requests, grpc_requests, http_responses,
                    grpc_connections, nextId, idLimit, pc, run >>

ResolveHeadersForHttpRequestCall(http_request) ==
    /\ pc = Idle
    /\ last' = Call("resolve_headers", "http", http_request, ResolveHeadersForHttpRequest(http_request), << >>)
    /\ UNCHANGED << workspaces, folders, http_requests, grpc_requests, http_responses,
                    grpc_connections, nextId, idLimit, pc, run >>

ResolveMetadataForGrpcRequestCall(grpc_request) ==
    /\ pc = Idle
    /\ last' = Call("resolve_headers", "grpc", grpc_request, ResolveMetadataForGrpcRequest(grpc_request), << >>)
    /\ UNCHANGED << workspaces, folders, http_requests, grpc_requests, http_responses,
                    grpc_connections, nextId, idLimit, pc, run >>

ListHttpRequestsForFolderRecursive(folder_id) ==
    /\ pc = Idle
    /\ \/ \E children \in RecursiveListings(folder_id) :
            last' = Call("list_recursive", "http", folder_id, Ok(children), << >>)
       \/ \* a find_many fails
          last' = Call("list_recursive", "http", folder_id, Err(RepositoryFailure), << >>)
    /\ UNCHANGED << workspaces, folders, http_requests, grpc_requests, http_responses,
                    grpc_connections, nextId, idLimit, pc, run >>

\* The authentication types entities come with.
FolderAuth(at) == IF at = Some("basic") THEN BasicAuth ELSE {}

\* Folder trees over "f1", "f2", "f3": "f1" is a root, "f2" a root or in "f1", "f3" a
\* root or in "f1" or in "f2".  No tree has a cycle.
FolderTrees ==
    { { Folder("f1", "w1", None, t1, FolderAuth(t1), << Header("B", "b") >>),
        Folder("f2", "w1", p2, t2, FolderAuth(t2), << Header("A", "f2"), Header("D", "d") >>),
        Folder("f3", "w1", p3, None, {}, << >>) } :
      t1 \in { None, Some("basic") }, t2 \in { None, Some("basic") },
      p2 \in { None, Some("f1") }, p3 \in { None, Some("f1"), Some("f2") } }

WorkspaceChoices ==
    { { Workspace("w1", t, {}, << Header("A", "a") >>), Workspace("w2", None, {}, << >>) } :
      t \in { None, Some("none") } }

\* The requests the folders hold: two in "f1", one in "f2", one in "f3", one right
\* under the workspace, one in another workspace; and a gRPC request in "f1".
HttpRequestsInFolders ==
    { HttpRequest("a1", "w1", Some("f1"), 1000 * Unit, None, {}, << >>),
      HttpRequest("a2", "w1", Some("f1"), 2000 * Unit, None, {}, << >>),
      HttpRequest("b1", "w1", Some("f2"), 1000 * Unit, None, {}, << >>),
      HttpRequest("c1", "w1", Some("f3"), 1000 * Unit, None, {}, << >>),
      HttpRequest("r0", "w1", None, 1000 * Unit, None, {}, << >>),
      HttpRequest("r9", "w2", None, 1000 * Unit, None, {}, << >>) }

GrpcRequestsInFolders ==
    { GrpcRequest("ga", "w1", Some("f1"), 1000 * Unit, None, {}, << >>) }

RequestAuth(at) == IF at = Some("bearer") THEN BearerAuth ELSE {}

\* The requests passed to the resolvers: in no folder, in "f1", in "f2", in a folder
\* that does not exist; with no type, a type, the empty type; with a header of their
\* own, or two of which one repeats a key of the workspace; and one in a workspace
\* that does not exist.
HttpResolveInputs ==
    { HttpRequest("q", "w1", fo, 0, at, RequestAuth(at), hs) :
        fo \in { None, Some("f1"), Some("f2"), Some("fx") },
        at \in { None, Some("bearer"), Some("") },
        hs \in { << Header("C", "c") >>, << Header("A", "q"), Header("C", "c") >> } }
    \cup { HttpRequest("q", "wx", None, 0, at, RequestAuth(at), << >>) : at \in { None, Some("bearer") } }

GrpcResolveInputs ==
    { GrpcRequest("q", "w1", fo, 0, at, RequestAuth(at), << Header("A", "q"), Header("C", "c") >>) :
        fo \in { None, Some("f2"), Some("fx") },
        at \in { None, Some("bearer") } }

InitResolve ==
    /\ workspaces \in WorkspaceChoices
    /\ folders \in FolderTrees
    /\ http_requests = HttpRequestsInFolders
    /\ grpc_requests = GrpcRequestsInFolders
    /\ http_responses = {}
    /\ grpc_connections = {}
    /\ nextId = 0
    /\ idLimit = 0
    /\ pc = Idle
    /\ last = Call("init", "", None, Ok(None), << >>)
    /\ run = NoRun

NextResolve ==
    \/ \E r \in HttpResolveInputs : ResolveAuthForHttpRequestCall(r)
    \/ \E r \in GrpcResolveInputs : ResolveAuthForGrpcRequestCall(r)
    \/ \E r \in HttpResolveInputs : ResolveHeadersForHttpRequestCall(r)
    \/ \E r \in GrpcResolveInputs : ResolveMetadataForGrpcRequestCall(r)
    \/ \E f \in { "f1", "f2", "f3", "fx" } : ListHttpRequestsForFolderRecursive(f)

SpecResolve == InitResolve /\ [][NextResolve]_vars

(***************************************************************************)
(* The store as its callers build it: requests upserted, responses and     *)
(* connections recorded, requests deleted.                                 *)
(***************************************************************************)
InitStore ==
    /\ workspaces = EnvWorkspaces
    /\ folders = EnvFolders
    /\ http_requests = {}
    /\ grpc_requests = {}
    /\ http_responses = {}
    /\ grpc_connections = {}
    /\ nextId = 0
    /\ idLimit = MaxNewIds
    /\ pc = Idle
    /\ last = Call("init", "", None, Ok(None), << >>)
    /\ run = NoRun

NextStore ==
    \/ \E r \in HttpCatalogue : UpsertHttpRequest(r)
    \/ \E r \in GrpcCatalogue : UpsertGrpcRequest(r)
    \/ \E c \in HttpResponseCatalogue : CreateHttpResponse(c)
    \/ \E c \in GrpcConnectionCatalogue : CreateGrpcConnection(c)
    \/ \E m \in http_requests \cup HttpCatalogue : DeleteHttpRequest(m)
    \/ \E m \in grpc_requests \cup GrpcCatalogue : DeleteGrpcRequest(m)

SpecStore == InitStore /\ [][NextStore]_vars

(***************************************************************************)
(* Duplication by several writers at once.  The duplicator makes two       *)
(* repository calls, the listing and the upsert, with no transaction       *)
(* around them: another writer's calls can come between the two.           *)
(***************************************************************************)
MaxWriters == 2

\* Duplications under way: for each, the writer, the request it was passed and the
\* sorted siblings it has listed.
Duplicating(calls) == [op |-> "duplicate", calls |-> calls]

InFlight == IF pc = Idle THEN {} ELSE pc.calls

\* siblings = list(..); retain; sort_by: the first repository call and what follows it
\* up to the upsert.
ListSiblings(writer, kind, request) ==
    /\ pc = Idle \/ pc.op = "duplicate"
    /\ \A call \in InFlight : call.writer # writer
    /\ nextId + Cardinality(InFlight) < idLimit
    /\ \E siblings \in SiblingLists(IF kind = "http"
                                      THEN ListHttpRequests(request.workspace_id)
                                      ELSE ListGrpcRequests(request.workspace_id), request) :
          pc' = Duplicating(InFlight \cup { [writer |-> writer, kind |-> kind,
                                              request |-> request, siblings |-> siblings] })
    /\ UNCHANGED << workspaces, folders, http_requests, grpc_requests, http_responses,
                    grpc_connections, nextId, idLimit, last, run >>

\* new_request.sort_priority = next_priority; self.upsert(&new_request, source)
UpsertCopy(call) ==
    /\ pc # Idle
    /\ pc.op = "duplicate"
    /\ call \in pc.calls
    /\ LET new_request == NewRequest(call.siblings, call.request)
           table == IF call.kind = "http" THEN http_requests ELSE grpc_requests
       IN  \/ /\ CanUpsert(new_request)
              /\ LET up == UpsertRow(table, new_request)
                 IN  /\ IF call.kind = "http"
                        THEN http_requests' = up.table /\ UNCHANGED grpc_requests
                        ELSE grpc_requests' = up.table /\ UNCHANGED http_requests
                     /\ last' = Call("duplicate", call.kind, call.request, Ok(up.row), Ids(call.siblings))
              /\ nextId' = IdsHandedOut(new_request)
           \/ \* upsert fails
              /\ last' = Call("duplicate", call.kind, None, Err(RepositoryFailure), << >>)
              /\ UNCHANGED << http_requests, grpc_requests, nextId >>
    /\ pc' = IF pc.calls = { call } THEN Idle ELSE Duplicating(pc.calls \ { call })
    /\ UNCHANGED << workspaces, folders, http_responses, grpc_connections, idLimit, run >>

InitInterleaved ==
    /\ workspaces = EnvWorkspaces
    /\ folders = EnvFolders
    /\ http_requests \in Tables(HttpCatalogue)
    /\ grpc_requests \in Tables(GrpcCatalogue)
    /\ DistinctPriorities(http_requests)
    /\ DistinctPriorities(grpc_requests)
    /\ http_responses = {}
    /\ grpc_connections = {}
    /\ nextId = 0
    /\ idLimit = MaxWriters
    /\ pc = Idle
    /\ last = Call("init", "", None, Ok(None), << >>)
    /\ run = NoRun

NextInterleaved ==
    \/ \E writer \in 1..MaxWriters :
          \/ \E r \in http_requests : ListSiblings(writer, "http", r)
          \/ \E r \in grpc_requests : ListSiblings(writer, "grpc", r)
    \/ \E call \in InFlight : UpsertCopy(call)

SpecInterleaved == InitInterleaved /\ [][NextInterleaved]_vars

(***************************************************************************)
(* list_http_requests_for_folder_recursive call by call: every call of the *)
(* function has a frame on the stack, and the folders may form a cycle.    *)
(***************************************************************************)
MaxDepth == 4

\* A call of the function: the folder it lists, the child folders its first loop has
\* still to visit, and its vector children.
Frame(folder_id, todo, children) ==
    [folder_id |-> folder_id, todo |-> todo, children |-> children]

Listing(folder_id, stack) == [op |-> "list_recursive", folder_id |-> folder_id, stack |-> stack]

ListingFailed(folder_id) == Call("list_recursive", "http", folder_id, Err(RepositoryFailure), << >>)

\* The outermost call: find_many::<Folder> and the start of the first loop.
EnterListing(folder_id) ==
    /\ pc = Idle
    /\ \/ /\ \E child_folders \in Orderings(FoldersIn(folder_id)) :
                pc' = Listing(folder_id, << Frame(folder_id, Ids(child_folders), << >>) >>)
          /\ UNCHANGED last
       \/ /\ last' = ListingFailed(folder_id)
          /\ UNCHANGED pc
    /\ UNCHANGED << workspaces, folders, http_requests, grpc_requests, http_responses,
                    grpc_connections, nextId, idLimit, run >>

\* Descend with a guard: a child folder that is being listed already is passed over.
Descend_CycleGuarded ==
    /\ pc # Idle
    /\ pc.op = "list_recursive"
    /\ LET stack == pc.stack
           top == stack[Len(stack)]
       IN  /\ top.todo # << >>
           /\ Len(stack) < MaxDepth
           /\ IF \E i \in 1..Len(stack) : stack[i].folder_id = Head(top.todo)
              THEN /\ pc' = Listing(pc.folder_id, [stack EXCEPT ![Len(stack)].todo = Tail(top.todo)])
                   /\ UNCHANGED last
              ELSE \/ /\ \E child_folders \in Orderings(FoldersIn(Head(top.todo))) :
                            pc' = Listing(pc.folder_id,
                                          Append([stack EXCEPT ![Len(stack)].todo = Tail(top.todo)],
                                                 Frame(Head(top.todo), Ids(child_folders), << >>)))
                      /\ UNCHANGED last
                   \/ /\ last' = ListingFailed(pc.folder_id)
                      /\ pc' = Idle
    /\ UNCHANGED << workspaces, folders, http_requests, grpc_requests, http_responses,
                    grpc_connections, nextId, idLimit, run >>

\* The first loop of the innermost call calls the function for the next child
\* folder.  There is no test of whether that folder is being listed already.
Descend ==
    /\ pc # Idle
    /\ pc.op = "list_recursive"
    /\ LET stack == pc.stack
           top == stack[Len(stack)]
       IN  /\ top.todo # << >>
           /\ Len(stack) < MaxDepth
           /\ \/ /\ \E child_folders \in Orderings(FoldersIn(Head(top.todo))) :
                       pc' = Listing(pc.folder_id,
                                     Append([stack EXCEPT ![Len(stack)].todo = Tail(top.todo)],
                                            Frame(Head(top.todo), Ids(child_folders), << >>)))
                 /\ UNCHANGED last
              \/ /\ last' = ListingFailed(pc.folder_id)
                 /\ pc' = Idle
    /\ UNCHANGED << workspaces, folders, http_requests, grpc_requests, http_responses,
                    grpc_connections, nextId, idLimit, run >>

\* The first loop of the innermost call is over: find_many::<HttpRequest>, the second
\* loop, and the return, to the caller's children.extend or to the caller of all.
Return ==
    /\ pc # Idle
    /\ pc.op = "list_recursive"
    /\ LET stack == pc.stack
           top == stack[Len(stack)]
           callers == SubSeq(stack, 1, Len(stack) - 1)
       IN  /\ top.todo = << >>
           /\ \/ \E direct \in Orderings(HttpRequestsIn(top.folder_id)) :
                    LET children == top.children \o direct
                    IN  IF callers = << >>
                        THEN /\ last' = Call("list_recursive", "http", pc.folder_id, Ok(children), << >>)
                             /\ pc' = Idle
                        ELSE /\ pc' = Listing(pc.folder_id,
                                              [callers EXCEPT ![Len(callers)].children = @ \o children])
                             /\ UNCHANGED last
              \/ /\ last' = ListingFailed(pc.folder_id)
                 /\ pc' = Idle
    /\ UNCHANGED << workspaces, folders, http_requests, grpc_requests, http_responses,
                    grpc_connections, nextId, idLimit, run >>

\* Folders "f1", "f2", "f3" with every parentage, cycles among them.
FolderGraphs ==
    { { Folder("f1", "w1", p1, None, {}, << >>),
        Folder("f2", "w1", p2, None, {}, << >>),
        Folder("f3", "w1", p3, None, {}, << >>) } :
      p1 \in { None, Some("f2"), Some("f3"), Some("f1") },
      p2 \in { None, Some("f1"), Some("f3") },
      p3 \in { None, Some("f1"), Some("f2") } }

InitWalk ==
    /\ workspaces = EnvWorkspaces
    /\ folders \in FolderGraphs
    /\ http_requests = HttpRequestsInFolders
    /\ grpc_requests = GrpcRequestsInFolders
    /\ http_responses = {}
    /\ grpc_connections = {}
    /\ nextId = 0
    /\ idLimit = 0
    /\ pc = Idle
    /\ last = Call("init", "", None, Ok(None), << >>)
    /\ run = NoRun

NextWalk ==
    \/ \E f \in { "f1", "f2", "f3", "fx" } : EnterListing(f)
    \/ Descend
    \/ Return

\* A call that has begun goes on: the operation is one synchronous run.
SpecWalk == InitWalk /\ [][NextWalk]_vars /\ WF_vars(Descend \/ Return)

(***************************************************************************)
(* Deletion, by row and by id, from any store the callers can have built:  *)
(* every response and every connection is of a request that is stored.     *)
(***************************************************************************)
\* The ids callers pass: those of the catalogues, of stored rows, and one of no row.
RequestIds ==
    ({ r.id : r \in HttpCatalogue \cup GrpcCatalogue \cup http_requests \cup grpc_requests }
        \ { "" }) \cup { "zz" }

InitDelete ==
    /\ workspaces = EnvWorkspaces
    /\ folders = EnvFolders
    /\ http_requests \in Tables(HttpCatalogue)
    /\ grpc_requests \in Tables(GrpcCatalogue)
    /\ http_responses \in SUBSET HttpResponseCatalogue
    /\ grpc_connections \in SUBSET GrpcConnectionCatalogue
    /\ \A c \in http_responses : GetHttpRequest(c.request_id).ok
    /\ \A c \in grpc_connections : GetGrpcRequest(c.request_id).ok
    /\ nextId = 0
    /\ idLimit = 0
    /\ pc = Idle
    /\ last = Call("init", "", None, Ok(None), << >>)
    /\ run = NoRun

NextDelete ==
    \/ \E m \in http_requests \cup HttpCatalogue : DeleteHttpRequest(m)
    \/ \E m \in grpc_requests \cup GrpcCatalogue : DeleteGrpcRequest(m)
    \/ \E id \in RequestIds : DeleteHttpRequestById(id)
    \/ \E id \in RequestIds : DeleteGrpcRequestById(id)

SpecDelete == InitDelete /\ [][NextDelete]_vars

(***************************************************************************)
(* What the claims speak of.                                               *)
(***************************************************************************)
Table(kind) == IF kind = "http" THEN http_requests ELSE grpc_requests

\* The last call was a duplication that succeeded.
Duplicated == last.op = "duplicate" /\ last.res.ok

Source == last.arg

Copy == last.res.val

\* The request passed to the duplicator is a row of the store, as stored.
SourcePersisted == Source \in Table(last.kind)

\* The rows that were siblings of the source when the duplicator listed them.
SiblingsBefore == { r \in Table(last.kind) : SameGroup(r, Source) /\ r.id # Copy.id }

Row(kind, id) == CHOOSE r \in Table(kind) : r.id = id

IndexOf(ids, id) == CHOOSE i \in 1..Len(ids) : ids[i] = id

\* The source was found in the sorted siblings and another sibling follows it there.
HasFollowing ==
    /\ \E i \in 1..Len(last.siblings) : last.siblings[i] = Source.id
    /\ IndexOf(last.siblings, Source.id) < Len(last.siblings)

Following == Row(last.kind, last.siblings[IndexOf(last.siblings, Source.id) + 1])

\* Every stored priority is a number of the floating-point format.
TypeOK ==
    /\ \A r \in http_requests \cup grpc_requests : Representable(r.sort_priority)
    /\ \A r \in http_requests \cup grpc_requests : r.id # ""
    /\ \A a, b \in http_requests : a.id = b.id => a = b
    /\ \A a, b \in grpc_requests : a.id = b.id => a = b
    /\ nextId <= idLimit

\* C1: after duplicate_request(S) of a persisted S succeeds, the copy N comes right
\* after S among S's siblings by ascending sort_priority: N.sort_priority >
\* S.sort_priority, and no other sibling has a priority from S's to N's, either end
\* included.
C1_CopyRightAfterSource ==
    (Duplicated /\ SourcePersisted) =>
        /\ Copy.sort_priority > Source.sort_priority
        /\ \A t \in SiblingsBefore \ {Source} :
             ~ (Source.sort_priority <= t.sort_priority /\ t.sort_priority <= Copy.sort_priority)

\* C2: when a sibling of priority p_next follows the persisted S in the sorted
\* siblings, the copy's sort_priority is (S.sort_priority + p_next) / 2, and it is
\* strictly above S.sort_priority and strictly below p_next.
C2_MidpointStrictlyBetween ==
    (Duplicated /\ SourcePersisted /\ HasFollowing) =>
        /\ Copy.sort_priority = FHalf(FAdd(Source.sort_priority, Following.sort_priority))
        /\ Source.sort_priority < Copy.sort_priority
        /\ Copy.sort_priority < Following.sort_priority

\* C5: N duplications in a row of the same persisted S give N copies whose
\* priorities differ pairwise, each strictly above S.sort_priority and each strictly
\* below the priority of the sibling that followed S before the first of them.
C5_RepeatedCopiesDistinct ==
    IsSome(run.src) =>
        LET s == Unwrap(run.src)[2]
            c == run.copies
        IN  /\ \A i, j \in 1..Len(c) : i # j => c[i] # c[j]
            /\ \A i \in 1..Len(c) : c[i] > s.sort_priority
            /\ IsSome(run.bound) => \A i \in 1..Len(c) : c[i] < Unwrap(run.bound)

\* The sorted siblings the duplicator worked on are the stored siblings of the
\* source, each once, by ascending sort_priority.
SortedSiblingsListed ==
    /\ { last.siblings[i] : i \in 1..Len(last.siblings) } = { r.id : r \in SiblingsBefore }
    /\ Len(last.siblings) = Cardinality(SiblingsBefore)
    /\ \A i, j \in 1..Len(last.siblings) :
         i < j => Row(last.kind, last.siblings[i]).sort_priority
                    <= Row(last.kind, last.siblings[j]).sort_priority

\* The source is the last of the sorted siblings.
SourceIsLast ==
    /\ last.siblings # << >>
    /\ last.siblings[Len(last.siblings)] = Source.id

\* C3: when S is found among its siblings and none follows it by ascending
\* sort_priority (S is last, or the only one), the copy's sort_priority is
\* S.sort_priority + 1000.
C3_LastGetsLargeGap ==
    Duplicated =>
        /\ SortedSiblingsListed
        /\ SourceIsLast => Copy.sort_priority = FAdd(Source.sort_priority, LargeGap)
        /\ ( \E s \in SiblingsBefore :
               /\ s.id = Source.id
               /\ \A r \in SiblingsBefore : r.id # s.id => r.sort_priority < s.sort_priority )
           => Copy.sort_priority = FAdd(Source.sort_priority, LargeGap)

\* S was last among several siblings, one of them of S's own priority.
C3_Witness ==
    /\ Duplicated
    /\ SourceIsLast
    /\ \E r \in SiblingsBefore : r.id # Source.id /\ r.sort_priority = Source.sort_priority
    /\ Copy.sort_priority = Source.sort_priority + LargeGap

\* C4: duplicate_request leaves the sort_priority of every row that was there before
\* the call as it was, whether the call succeeds or fails.
C4_PrioritiesKept ==
    [][ last'.op = "duplicate" =>
          /\ \A r \in http_requests :
               \E q \in http_requests' : q.id = r.id /\ q.sort_priority = r.sort_priority
          /\ \A r \in grpc_requests :
               \E q \in grpc_requests' : q.id = r.id /\ q.sort_priority = r.sort_priority ]_vars

\* A copy was placed between the source and a sibling that followed it.
C4_Witness ==
    /\ Duplicated
    /\ SourcePersisted
    /\ HasFollowing
    /\ Copy.sort_priority # Source.sort_priority
    /\ Copy \in Table(last.kind)

(***************************************************************************)
(* The resolvers and the recursive listing.                                *)
(***************************************************************************)
\* The chains of folders from the folder of that id up to a root folder, the nearest
\* first: one chain when every folder on the way is in the store, none otherwise.
Chains(folder_id) ==
    { p \in UNION { [1..n -> folders] : n \in 1..Cardinality(folders) } :
        /\ p[1].id = folder_id
        /\ \A i \in 1..(Len(p) - 1) : p[i].folder_id = Some(p[i + 1].id)
        /\ p[Len(p)].folder_id = None }

Settings(entity) == << entity.authentication_type, entity.authentication, entity.id >>

Resolved == last.op \in { "resolve_auth", "resolve_headers" }

\* C6: resolve_auth on a request that sets an authentication type of its own returns
\* that type, the request's own authentication map and the request's own id, whatever
\* its folders and its workspace define and whether or not they can be found.
C6_OwnTypeWins ==
    (last.op = "resolve_auth" /\ IsSome(last.arg.authentication_type))
        => last.res = Ok(<< last.arg.authentication_type, last.arg.authentication, last.arg.id >>)

\* The request sets a type, its folder is not in the store and its ancestors set
\* other types; the call has returned the request's own settings.
C6_Witness ==
    /\ last.op = "resolve_auth"
    /\ last.arg.authentication_type = Some("bearer")
    /\ last.arg.folder_id = Some("fx")
    /\ ~GetFolder("fx").ok
    /\ \E f \in folders : f.authentication_type = Some("basic")
    /\ last.res = Ok(<< Some("bearer"), BearerAuth, "q" >>)

\* C7: for a request with no authentication type of its own, resolve_auth returns the
\* settings and the id of the closest folder up its chain of folders that sets a type,
\* and those of the workspace when no folder of the chain sets one or the request is
\* in no folder.
C7_ClosestSetterWins ==
    (last.op = "resolve_auth" /\ last.arg.authentication_type = None) =>
        IF last.arg.folder_id = None
        THEN \A w \in workspaces :
                w.id = last.arg.workspace_id => last.res = Ok(Settings(w))
        ELSE \A p \in Chains(Unwrap(last.arg.folder_id)) :
                LET setters == { i \in 1..Len(p) : IsSome(p[i].authentication_type) }
                IN  IF setters # {}
                    THEN \E i \in setters :
                            /\ \A j \in setters : i <= j
                            /\ last.res = Ok(Settings(p[i]))
                    ELSE \A w \in workspaces :
                            w.id = p[Len(p)].workspace_id => last.res = Ok(Settings(w))

\* The request sets no type and is in "f2", which sets none and is in "f1", which sets
\* one, while the workspace sets another; the call has returned the settings of "f1".
C7_Witness ==
    /\ last.op = "resolve_auth"
    /\ last.arg.authentication_type = None
    /\ last.arg.folder_id = Some("f2")
    /\ \E p \in Chains("f2") :
          /\ Len(p) = 2
          /\ p[1].authentication_type = None
          /\ p[2].authentication_type = Some("basic")
    /\ \E w \in workspaces : w.id = "w1" /\ w.authentication_type = Some("none")
    /\ last.res = Ok(<< Some("basic"), BasicAuth, "f1" >>)

\* The headers of a chain of folders, those of the root folder first.
RECURSIVE ChainHeaders(_)
ChainHeaders(p) == IF p = << >> THEN << >> ELSE ChainHeaders(Tail(p)) \o Head(p).headers

OwnEntries(call) == IF call.kind = "http" THEN call.arg.headers ELSE call.arg.metadata

\* C8: resolve_headers and resolve_metadata return the headers of the workspace, then
\* those of the folders from the root folder down to the request's folder, then the
\* request's own entries, every entry kept and in its order, also when keys repeat;
\* workspace headers [A], folder headers [B] and request headers [C] give [A, B, C].
C8_HeadersConcatenated ==
    last.op = "resolve_headers" =>
        IF last.arg.folder_id = None
        THEN \A w \in workspaces :
                w.id = last.arg.workspace_id => last.res = Ok(w.headers \o OwnEntries(last))
        ELSE \A p \in Chains(Unwrap(last.arg.folder_id)) :
                \A w \in workspaces :
                    w.id = p[Len(p)].workspace_id
                        => last.res = Ok(w.headers \o ChainHeaders(p) \o OwnEntries(last))

\* The workspace has [A], the root folder "f1" has [B], the request in "f1" has [C]:
\* the call has returned [A, B, C].
C8_Witness ==
    /\ last.op = "resolve_headers"
    /\ last.kind = "http"
    /\ last.arg.folder_id = Some("f1")
    /\ last.arg.headers = << Header("C", "c") >>
    /\ last.res = Ok(<< Header("A", "a"), Header("B", "b"), Header("C", "c") >>)

\* Whether the folder of id inner is the folder of id outer or is inside it.
Within(inner, outer) ==
    \E n \in 1..Cardinality(folders) : \E p \in [1..n -> folders] :
        /\ p[1].id = inner
        /\ \A i \in 1..(n - 1) : p[i].folder_id = Some(p[i + 1].id)
        /\ p[n].id = outer

Contained(request, folder_id) ==
    /\ IsSome(request.folder_id)
    /\ \/ Unwrap(request.folder_id) = folder_id
       \/ Within(Unwrap(request.folder_id), folder_id)

Occurrences(s, x) == Cardinality({ i \in 1..Len(s) : s[i] = x })

\* C9: the recursive listing of a folder returns every HTTP request whose folder is
\* that folder or a folder inside it exactly once, and no other request.
C9_ExactlyTheSubtree ==
    (last.op = "list_recursive" /\ last.res.ok) =>
        /\ \A r \in http_requests :
              Occurrences(last.res.val, r) = IF Contained(r, last.arg) THEN 1 ELSE 0
        /\ \A i \in 1..Len(last.res.val) : last.res.val[i] \in http_requests

\* "f1" holds two requests and the folder "f2", which holds a request and the folder
\* "f3", which holds one: the listing of "f1" has returned the four of them.
C9_Witness ==
    /\ last.op = "list_recursive"
    /\ last.arg = "f1"
    /\ last.res.ok
    /\ \E f \in folders : f.id = "f2" /\ f.folder_id = Some("f1")
    /\ \E f \in folders : f.id = "f3" /\ f.folder_id = Some("f2")
    /\ Len(last.res.val) = 4
    /\ { last.res.val[i].id : i \in 1..4 } = { "a1", "a2", "b1", "c1" }

\* C16: the recursive listing is depth first, the folders before the requests: for
\* every folder of the listed subtree and every folder right under it, the requests
\* of that folder's subtree are next to each other in the result and before every
\* request that is right under the first folder.
C16_SubtreesBeforeDirect ==
    (last.op = "list_recursive" /\ last.res.ok) =>
        \A G \in { f \in folders : Within(f.id, last.arg) } :
            \A H \in FoldersIn(G.id) :
                LET result == last.res.val
                    sub == { i \in 1..Len(result) : Contained(result[i], H.id) }
                    direct == { i \in 1..Len(result) : result[i].folder_id = Some(G.id) }
                IN  /\ \A i, j \in sub : \A k \in 1..Len(result) : (i < k /\ k < j) => k \in sub
                    /\ \A i \in sub : \A j \in direct : i < j

\* "f3" is in "f2" and "f2" in "f1": the listing of "f1" has the request of "f3",
\* then that of "f2", then the two of "f1".
C16_Witness ==
    /\ last.op = "list_recursive"
    /\ last.arg = "f1"
    /\ last.res.ok
    /\ Len(last.res.val) = 4
    /\ last.res.val[1].id = "c1"
    /\ last.res.val[2].id = "b1"
    /\ { last.res.val[3].id, last.res.val[4].id } = { "a1", "a2" }

\* What resolve_auth hands the request over to when the request's own settings are
\* not taken: its folder's resolution if it is in a folder, else its workspace's.
Delegated(request) ==
    IF IsSome(request.folder_id)
    THEN LET folder == GetFolder(Unwrap(request.folder_id))
         IN  IF folder.ok THEN ResolveAuthForFolder(folder.val) ELSE folder
    ELSE LET workspace == GetWorkspace(request.workspace_id)
         IN  IF workspace.ok THEN Ok(ResolveAuthForWorkspace(workspace.val)) ELSE workspace

\* C14: resolve_auth returns the request's own settings and id exactly when its
\* authentication_type is set and not the empty string; with the type absent or
\* empty, the result is that of the folder's resolution when the request is in a
\* folder, and of the workspace's otherwise.
C14_OwnSettingsWhenTypeNonEmpty ==
    last.op = "resolve_auth" =>
        IF IsSome(last.arg.authentication_type) /\ Unwrap(last.arg.authentication_type) # ""
        THEN last.res = Ok(Settings(last.arg))
        ELSE last.res = Delegated(last.arg)

\* The parentage of the folders listed from the folder of that id has a cycle: a
\* folder of the subtree is inside itself.
CycleFrom(folder_id) ==
    \E g, h \in folders :
        /\ Within(g.id, folder_id)
        /\ g.folder_id = Some(h.id)
        /\ Within(h.id, g.id)

ListingUnderWay == pc # Idle /\ pc.op = "list_recursive"

\* C17: the recursive listing ends on every folder tree without a cycle; when the
\* parentage of the folders it lists has a cycle it calls itself again and again,
\* with no guard: it never returns a result, and it ends only if a repository call
\* fails, with that failure.
C17_EndsUnlessCycle ==
    /\ [](last.op = "list_recursive" /\ last.res.ok => ~CycleFrom(last.arg))
    /\ [][ (ListingUnderWay /\ CycleFrom(pc.folder_id) /\ pc' = Idle)
              => last' = ListingFailed(pc.folder_id) ]_vars
    /\ (ListingUnderWay /\ ~CycleFrom(pc.folder_id)) ~> (pc = Idle)

\* "f1" is its own ancestor: the listing of "f1" is in a call for a folder that an
\* outer call is listing, as deep as the model lets the calls go.
C17_Witness ==
    /\ ListingUnderWay
    /\ CycleFrom(pc.folder_id)
    /\ Len(pc.stack) = MaxDepth
    /\ \E i, j \in 1..Len(pc.stack) : i < j /\ pc.stack[i].folder_id = pc.stack[j].folder_id

(***************************************************************************)
(* Deletion.                                                               *)
(***************************************************************************)
Requests(kind) == IF kind = "http" THEN http_requests ELSE grpc_requests

Children(kind) == IF kind = "http" THEN http_responses ELSE grpc_connections

\* C10: delete_request removes the child records of the request before the request:
\* while a delete is under way the request is not gone with a child of it still there,
\* and after a delete that succeeded no child record refers to the request and get
\* of its id returns NotFound.
C10_ChildrenBeforeRequest ==
    /\ pc.op = "delete" =>
          (ChildrenOf(Children(pc.kind), pc.m.id) # {}
              => \E r \in Requests(pc.kind) : r.id = pc.m.id)
    /\ (last.op = "delete" /\ last.res.ok) =>
          /\ ChildrenOf(Children(last.kind), last.arg.request.id) = {}
          /\ FindOne(Requests(last.kind), last.arg.request.id) = Err(NotFound)

\* A persisted request that had responses has been deleted: the responses went with
\* the first call, the request with the second.
C10_Witness ==
    /\ last.op = "delete"
    /\ last.kind = "http"
    /\ last.res.ok
    /\ last.arg.children # {}
    /\ \A c \in last.arg.children : c.request_id = last.arg.request.id /\ c \notin http_responses
    /\ GetHttpRequest(last.arg.request.id) = Err(NotFound)

\* A call that began and ended in this step.
WholeCall == pc = Idle /\ pc' = Idle

\* A step of a delete_request: one of its two repository calls.  The request it
\* is about is pc'.m after the first call and last'.arg.request at its end.
DeleteStep == pc' # Idle \/ last'.op = "delete"

\* C11: delete_request_by_id of an id that no row has returns NotFound and changes
\* nothing in the store; of an id that a row has, it is delete_request of that row.
C11_DeleteByIdLooksUpFirst ==
    [][ /\ (WholeCall /\ last'.op = "delete_by_id") =>
              /\ FindOne(Requests(last'.kind), last'.arg) = Err(NotFound)
              /\ last'.res = Err(NotFound)
              /\ UNCHANGED << workspaces, folders, http_requests, grpc_requests,
                              http_responses, grpc_connections >>
        /\ DeleteStep =>
              LET id == IF pc' # Idle THEN pc'.m.id ELSE last'.arg.request.id
              IN  /\ (GetHttpRequest(id).ok /\ DeleteHttpRequestById(id))
                        => DeleteHttpRequest(GetHttpRequest(id).val)
                  /\ (GetGrpcRequest(id).ok /\ DeleteGrpcRequestById(id))
                        => DeleteGrpcRequest(GetGrpcRequest(id).val) ]_vars

\* A store with requests and responses was asked to delete a request of an id that
\* no request has: NotFound came back and the rows are all there.
C11_Witness ==
    /\ last.op = "delete_by_id"
    /\ last.kind = "http"
    /\ last.res = Err(NotFound)
    /\ GetHttpRequest(last.arg) = Err(NotFound)
    /\ http_requests # {}
    /\ http_responses # {}

\* C19: when the removal of the child records fails, delete_request ends there with
\* that error: it does not go on to remove the request, and the request is in the
\* store afterwards as it was before.  (A delete_request that ends in the step it
\* began in has ended in its first repository call.)
C19_CascadeFailureEndsCall ==
    [][ (WholeCall /\ last'.op = "delete") =>
          /\ last'.res = Err(RepositoryFailure)
          /\ UNCHANGED << http_requests, grpc_requests >> ]_vars

\* The removal of the responses of a stored request failed with one of them removed
\* and another not: the error came back and the request is still stored.
C19_Witness ==
    /\ pc = Idle
    /\ last.op = "delete"
    /\ last.kind = "http"
    /\ last.res = Err(RepositoryFailure)
    /\ last.arg.children # {}
    /\ ChildrenOf(http_responses, last.arg.request.id) # {}
    /\ GetHttpRequest(last.arg.request.id) = Ok(last.arg.request)

(***************************************************************************)
(* Duplication: the fallback, the copy, and what the priority depends on.  *)
(***************************************************************************)

\* The request passed to the duplicator was not among the siblings it listed.
SourceAbsent == \A i \in 1..Len(last.siblings) : last.siblings[i] # Source.id

\* C15: when the request passed to duplicate_request is not among the listed
\* siblings, the call goes on and persists a copy whose sort_priority is the passed
\* request's sort_priority + 0.001; neither + 1000 nor a midpoint is taken.
C15_AbsentSourceGetsEpsilon ==
    (Duplicated /\ SourceAbsent) =>
        /\ Copy.sort_priority = FAdd(Source.sort_priority, Epsilon)
        /\ Copy \in Table(last.kind)
        /\ FAdd(Source.sort_priority, Epsilon) # FAdd(Source.sort_priority, LargeGap)

\* "h3" is stored in folder "f1" and was passed as a request in no folder, where
\* other requests are: the copy is stored with the passed priority + 0.001, which is
\* neither the passed priority nor that + 1000.
C15_Witness ==
    /\ Duplicated
    /\ SourceAbsent
    /\ last.kind = "http"
    /\ Source \in HttpStrays
    /\ \E r \in http_requests : r.id = Source.id /\ r.folder_id # Source.folder_id
    /\ last.siblings # << >>
    /\ Copy \in http_requests
    /\ Copy.sort_priority = Source.sort_priority + Epsilon
    /\ Epsilon > 0

\* C18: a duplicate_request that succeeds adds one row to the table of its kind and
\* removes none; the row has an id that is neither the passed request's nor that of
\* a row that was there, and equals the passed request in every field but id and
\* sort_priority.
C18_OneRowAdded ==
    [][ (last'.op = "duplicate" /\ last'.res.ok) =>
          LET S == last'.arg
              N == last'.res.val
          IN  /\ IF last'.kind = "http"
                 THEN /\ http_requests' = http_requests \cup { N }
                      /\ N \notin http_requests
                      /\ \A r \in http_requests : r.id # N.id
                      /\ UNCHANGED grpc_requests
                 ELSE /\ grpc_requests' = grpc_requests \cup { N }
                      /\ N \notin grpc_requests
                      /\ \A r \in grpc_requests : r.id # N.id
                      /\ UNCHANGED http_requests
              /\ UNCHANGED << workspaces, folders, http_responses, grpc_connections >>
              /\ N.id # S.id
              /\ N.id # ""
              /\ [N EXCEPT !.id = S.id, !.sort_priority = S.sort_priority] = S ]_vars

\* "h3", stored in folder "f1", was duplicated: its copy is a new row of that folder.
C18_Witness ==
    /\ Duplicated
    /\ last.kind = "http"
    /\ SourcePersisted
    /\ Source.id = "h3"
    /\ Copy \in http_requests
    /\ Copy.id \notin { "", "h3" }
    /\ Copy.folder_id = Some("f1")
    /\ Copy.sort_priority # Source.sort_priority

\* The rows of a table that are siblings of a request.
Group(table, request) == { r \in table : SameGroup(r, request) }

\* The priorities duplicate_request can compute for a request over a table of its
\* kind, one for each order the workspace's rows can be listed in.
PrioritiesOver(table, request) ==
    { NextPriority(siblings, request) :
        siblings \in SiblingLists({ r \in table : r.workspace_id = request.workspace_id }, request) }

\* The tables that hold the same siblings of a request as a given table, and any
\* other rows.
TablesAgreeing(table, catalogue, request) ==
    { other \in Tables(catalogue \cup table) : Group(other, request) = Group(table, request) }

\* C20: the sort_priority duplicate_request computes depends on the passed request
\* and on the stored requests of its kind in its workspace and folder only: every
\* table with the same siblings, whatever its other rows and whatever the table of
\* the other kind, gives the same priorities, among them the one of the copy.
C20_OnlySiblingsCount ==
    [][ (last'.op = "duplicate" /\ last'.res.ok) =>
          LET S == last'.arg
              N == last'.res.val
              table == IF last'.kind = "http" THEN http_requests ELSE grpc_requests
              catalogue == IF last'.kind = "http" THEN HttpCatalogue ELSE GrpcCatalogue
          IN  \A other \in TablesAgreeing(table, catalogue, S) :
                 /\ PrioritiesOver(other, S) = PrioritiesOver(table, S)
                 /\ N.sort_priority \in PrioritiesOver(other, S) ]_vars

\* "h1" was duplicated with "h2" after it and, in folder "f1", "h3" of a priority
\* between the two, and with gRPC requests stored: the copy is midway between "h1"
\* and "h2".
C20_Witness ==
    /\ Duplicated
    /\ last.kind = "http"
    /\ SourcePersisted
    /\ HasFollowing
    /\ grpc_requests # {}
    /\ \E r \in http_requests :
          /\ ~SameGroup(r, Source)
          /\ Source.sort_priority < r.sort_priority
          /\ r.sort_priority < Following.sort_priority
    /\ Copy.sort_priority = FHalf(FAdd(Source.sort_priority, Following.sort_priority))

(***************************************************************************)
(* Duplication, serialized and not.                                        *)
(***************************************************************************)
\* Two copies of one source with one and the same sort_priority.
CopiesCollide ==
    \E kind \in { "http", "grpc" } : \E a, b \in Table(kind) :
        /\ a # b
        /\ SameGroup(a, b)
        /\ a.sort_priority = b.sort_priority
        /\ \E i, j \in 1..Len(NewIds) : a.id = NewIds[i] /\ b.id = NewIds[j]

\* Under writers whose calls interleave, two duplications of one source that both
\* listed before either upserted leave two copies of one sort_priority.
InterleavedCopiesCollide == CopiesCollide /\ nextId = 2

\* C12: the listing and the upsert of the duplicator are two repository calls, and
\* another writer between them can leave the copy not strictly between the source
\* and the sibling that follows it; with one call at a time no such state is
\* reached: the copy is strictly between the two and no two copies collide.
C12_SerializedPlacementStrict ==
    /\ ~CopiesCollide
    /\ (Duplicated /\ SourcePersisted /\ HasFollowing) =>
          /\ Source.sort_priority < Copy.sort_priority
          /\ Copy.sort_priority < Following.sort_priority

\* C13: from a store whose siblings have pairwise distinct priorities, every state
\* reached by duplicating persisted requests, one call at a time, has siblings of
\* pairwise distinct priorities.
C13_DistinctPrioritiesKept ==
    DistinctPriorities(http_requests) /\ DistinctPriorities(grpc_requests)

====
